---- MODULE Spec2Model ----
(***************************************************************************)
(* Model of the dataset builder of stroopmouse_data                        *)
(* (src/stroopmouse_data/dataset/core.py): the DataSet / Mouse / Date      *)
(* classes that curate a selection of mice, dates and blocks in an HDF5    *)
(* file and keep an activity log in it.                                    *)
(*                                                                         *)
(* The persisted file is the variable hdf, a tree of groups.  The objects  *)
(* of one open session are mouse_list, mouse_objects and log_count.  Every *)
(* handler is an operator on a record s that holds the file and the        *)
(* objects.  A handler that writes to the file appends the write to        *)
(* s.steps, so that the record a handler returns holds, next to the new    *)
(* state, the writes of the operation in the order in which the code makes *)
(* them, whether it raised, and whether a menu printed 'Not recognized.'.  *)
(* The variable written keeps the names of the log attributes that the     *)
(* calls of log_event of the open session wrote, in the order of the calls.*)
(*                                                                         *)
(* The dataset reader (src/stroopmouse_data/data/core.py) is a program of  *)
(* its own: the variable reader holds the DataSet object it builds from a  *)
(* dataset file, and out the arguments and the result of its last call of  *)
(* get_data, as_array or as_vector.  ReaderSpec is its state machine.      *)
(***************************************************************************)
EXTENDS Integers, Sequences, FiniteSets, TLC

VARIABLES hdf, open, mouse_list, mouse_objects, log_count, now, sessions,
          written, reader, out

vars == <<hdf, open, mouse_list, mouse_objects, log_count, now, sessions,
          written, reader, out>>

-----------------------------------------------------------------------------
(* Bounds of the model. *)

\* the persisted log holds at most MaxLog entries
MaxLog == 3
\* the clock takes the values 0..MaxClock (in ticks)
MaxClock == 1
\* the dataset is opened at most MaxSessions times
MaxSessions == 2
\* the user enters at most MaxPicks block numbers in one choose_blocks loop
MaxPicks == 2
\* a caller passes at most MaxNames file names to add_block
MaxNames == 3

\* clock ticks per second: strftime('%H:%M:%S') drops the fractions
TicksPerSecond == 2

-----------------------------------------------------------------------------
(* The raw data repository: data_repo/<mouse>/<date>/<block file>.         *)

ActivityLog == "Activity log"

\* os.listdir(data_repo)
ListDirRepo == {"m1", "m2", "test", ".DS_Store"}

\* names a caller can pass as a mouse: two mice of the repository and one
\* that has no directory in it
MouseInputs == {"m1", "m2", "m9"}

\* os.listdir(f'{data_repo}/{mouse}'): dates are written yyyy-mm-dd, whose
\* lexicographic order is the order of the day numbers used here
ListDirMouse(m) ==
    CASE m = "m1" -> {1, 2}
      [] m = "m2" -> {1}
      [] OTHER -> {}

\* dates a caller can pass: the dates of the repository and one more
DateInputs == {1, 2, 3}

\* the file name f"ms{m}_{d}_{stem}{n}.hdf5" as a sequence of its parts, the
\* last six of them single characters: block 10 and block 20 of a date have
\* the same character at [-6]
FileName(m, d, stem, n) == <<m, d, stem, n, ".", "h", "d", "f", "5">>

\* os.listdir(f'{data_repo}/{mouse}/{date}/'), in the order the file system
\* gives
ListDirDate(m, d) ==
    CASE m = "m1" /\ d = 1 -> <<FileName(m, d, "block1", "0"),
                                FileName(m, d, "block2", "0")>>
      [] m = "m1" /\ d = 2 -> <<FileName(m, d, "block", "1")>>
      [] m = "m2" /\ d = 1 -> <<FileName(m, d, "block", "1")>>
      [] OTHER -> <<>>

\* does the directory exist (os.listdir raises FileNotFoundError if not)
MouseDirExists(m) == m \in ListDirRepo
DateDirExists(m, d) == MouseDirExists(m) /\ d \in ListDirMouse(m)

\* the attribute experimental_quality of a block file, as its characters
ExperimentalQuality(f) ==
    IF f[1] = "m1" /\ f[2] = 2 THEN <<"n">>
    ELSE IF f[3] = "block2" THEN <<"n", "o">>
    ELSE <<"y">>

\* the attribute experimental_message of a block file
ExperimentalMessage(f) == <<"message of", f>>

\* messages the user can type at 'Describe your changes: '
EditMsgs == {"a"}

-----------------------------------------------------------------------------
(* Python and h5py helpers. *)

RECURSIVE SortedSeq(_)
\* sorted(S) for a set of numbers
SortedSeq(S) ==
    IF S = {} THEN <<>>
    ELSE LET x == CHOOSE x \in S : \A y \in S : x <= y
         IN <<x>> \o SortedSeq(S \ {x})

Range(q) == {q[i] : i \in DOMAIN q}

\* q.index(x) of a Python list, 1-based here
Index(q, x) == CHOOSE i \in DOMAIN q : q[i] = x /\ \A j \in 1..(i-1) : q[j] # x

\* q.remove(x): removes the first occurrence
Remove(q, x) ==
    LET i == Index(q, x)
    IN SubSeq(q, 1, i-1) \o SubSeq(q, i+1, Len(q))

\* an h5py group with no member
EmptyGroup == [k \in {} |-> 0]

\* g.require_group(name)
RequireGroup(g, name) ==
    [k \in DOMAIN g \cup {name} |-> IF k \in DOMAIN g THEN g[k] ELSE EmptyGroup]

\* g[name] = value, and g.attrs[name] = value
SetMember(g, name, value) ==
    [k \in DOMAIN g \cup {name} |-> IF k = name THEN value ELSE g[k]]

\* del g[name]
DelMember(g, name) == [k \in DOMAIN g \ {name} |-> g[k]]

\* h5py lists the members of a group in the order of their names
GroupNames == <<"Activity log", "m1", "m2", "m9">>
RootKeys(h) == SelectSeq(GroupNames, LAMBDA k : k \in DOMAIN h)
DateKeys(g) == SortedSeq(DOMAIN g)

\* str(n) for 0 <= n <= 9999, as its characters
Digit(n) == <<"0", "1", "2", "3", "4", "5", "6", "7", "8", "9">>[n + 1]
RECURSIVE Str(_)
Str(n) == IF n < 10 THEN <<Digit(n)>> ELSE Str(n \div 10) \o <<Digit(n % 10)>>

RECURSIVE zfill(_, _)
\* s.zfill(width)
zfill(s, width) == IF Len(s) >= width THEN s ELSE zfill(<<"0">> \o s, width)

\* now.strftime('%Y-%m-%d %H:%M:%S'): the second the instant t lies in
strftime(t) == t \div TicksPerSecond

-----------------------------------------------------------------------------
(* The handlers, as operators on the record s:                             *)
(*   s.hdf, s.mouse_list, s.mouse_objects, s.log_count  the program state  *)
(*   s.steps    the writes made to the file so far, in order               *)
(*   s.written  the names of the log attributes written so far             *)
(*   s.raised   an exception is propagating                                *)
(*   s.result   "ok", or "not_recognized" when a menu printed that         *)

\* a write to the file, as an event: kind is "group" (require_group), "del"
\* (del of a group), "del_blocks", "set_blocks" or "log"; date = 0 where the
\* write is not below a date, value is the block list or the log comment
Event(kind, mouse, date, value) ==
    [kind |-> kind, mouse |-> mouse, date |-> date, value |-> value]

\* one write to the file: its new content h, and the write as an event
Write(s, h, event) == [s EXCEPT !.hdf = h, !.steps = Append(@, event)]

\* the name of the attribute log_event writes
LogKey(t, count) == <<strftime(t), zfill(Str(count), 3)>>

\* log_event without the increment of log_count
log_event_nobump(s, comment) ==
    LET key == LogKey(now, s.log_count)
        w == Write(s, [s.hdf EXCEPT ![ActivityLog] = SetMember(@, key, comment)],
                   Event("log", "", 0, comment))
    IN [w EXCEPT !.written = Append(@, key)]

\* DataSet.log_event
log_event(s, comment) ==
    LET key == LogKey(now, s.log_count)
        w == Write(s, [s.hdf EXCEPT ![ActivityLog] = SetMember(@, key, comment)],
                   Event("log", "", 0, comment))
    IN [w EXCEPT !.log_count = @ + 1, !.written = Append(@, key)]

\* Date.__init__
Date__init__(m, d) ==
    LET all_blocks == ListDirDate(m, d)
    IN [date |-> d,
        all_blocks |-> all_blocks,
        all_block_numbers |->
            [i \in DOMAIN all_blocks |-> all_blocks[i][Len(all_blocks[i]) - 5]]]

\* Mouse.__init__, given that the directories it lists exist
Mouse__init__(name, group) ==
    LET date_list == DateKeys(group)
    IN [name |-> name,
        all_dates |-> SortedSeq(ListDirMouse(name)),
        date_list |-> date_list,
        date_objects |-> [i \in DOMAIN date_list |-> Date__init__(name, date_list[i])]]

\* does Mouse.__init__ raise: os.listdir of a directory that does not exist
Mouse__init__raises(name, group) ==
    \/ ~MouseDirExists(name)
    \/ \E d \in DOMAIN group : ~DateDirExists(name, d)


\* DataSet.__init__ that takes every key of the file for a mouse
DataSet__init__nofilter(h, msg) ==
    LET s0 == [hdf |-> h, mouse_list |-> <<>>, mouse_objects |-> <<>>,
               log_count |-> 0, steps |-> <<>>, written |-> <<>>,
               raised |-> FALSE, result |-> "ok"]
        s1 == IF ActivityLog \in DOMAIN h THEN s0
              ELSE Write(s0, RequireGroup(h, ActivityLog),
                         Event("group", ActivityLog, 0, <<>>))
        ml == RootKeys(s1.hdf)
        s2 == [s1 EXCEPT !.mouse_list = ml]
    IN IF \E i \in DOMAIN ml : Mouse__init__raises(ml[i], s2.hdf[ml[i]])
       THEN [s2 EXCEPT !.raised = TRUE]
       ELSE log_event([s2 EXCEPT !.mouse_objects =
                          [i \in DOMAIN ml |-> Mouse__init__(ml[i], s2.hdf[ml[i]])]],
                      <<"User Message", msg>>)

\* DataSet.__init__ on the file as it is on disk; the user types msg
DataSet__init__(h, msg) ==
    LET s0 == [hdf |-> h, mouse_list |-> <<>>, mouse_objects |-> <<>>,
               log_count |-> 0, steps |-> <<>>, written |-> <<>>,
               raised |-> FALSE, result |-> "ok"]
        s1 == IF ActivityLog \in DOMAIN h THEN s0
              ELSE Write(s0, RequireGroup(h, ActivityLog),
                         Event("group", ActivityLog, 0, <<>>))
        ml == SelectSeq(RootKeys(s1.hdf), LAMBDA k : k # ActivityLog)
        s2 == [s1 EXCEPT !.mouse_list = ml]
    IN IF \E i \in DOMAIN ml : Mouse__init__raises(ml[i], s2.hdf[ml[i]])
       THEN [s2 EXCEPT !.raised = TRUE]
       ELSE log_event([s2 EXCEPT !.mouse_objects =
                          [i \in DOMAIN ml |-> Mouse__init__(ml[i], s2.hdf[ml[i]])]],
                      <<"User Message", msg>>)

\* add_mouse without the test 'mouse not in self.mouse_list'
add_mouse_nocheck(s, mouse) ==
    LET s1 == [s EXCEPT !.mouse_list = Append(@, mouse)]
        s2 == Write(s1, RequireGroup(s1.hdf, mouse), Event("group", mouse, 0, <<>>))
    IN IF Mouse__init__raises(mouse, s2.hdf[mouse])
       THEN [s2 EXCEPT !.raised = TRUE]
       ELSE log_event([s2 EXCEPT !.mouse_objects =
                          Append(@, Mouse__init__(mouse, s2.hdf[mouse]))],
                      <<"Added mouse", mouse>>)

\* DataSet.add_mouse, up to the call of choose_dates (whose commands are the
\* Mouse operations below)
add_mouse(s, mouse) ==
    IF mouse \notin Range(s.mouse_list)
    THEN LET s1 == [s EXCEPT !.mouse_list = Append(@, mouse)]
             s2 == Write(s1, RequireGroup(s1.hdf, mouse), Event("group", mouse, 0, <<>>))
         IN IF Mouse__init__raises(mouse, s2.hdf[mouse])
            THEN [s2 EXCEPT !.raised = TRUE]
            ELSE log_event([s2 EXCEPT !.mouse_objects =
                               Append(@, Mouse__init__(mouse, s2.hdf[mouse]))],
                           <<"Added mouse", mouse>>)
    ELSE s

\* the branches of DataSet.choose_mouse that take a mouse number
all_mice == ListDirRepo \ {"test", ".DS_Store"}

choose_mouse(s, inp) ==
    IF inp \in all_mice THEN add_mouse(s, inp)
    ELSE [s EXCEPT !.result = "not_recognized"]

\* delete_mode without 'del self.hdf[mouse]'
DataSet_delete_mode_keepgroup(s, mouse) ==
    IF mouse \in Range(s.mouse_list)
    THEN LET s1 == [s EXCEPT !.mouse_list = Remove(@, mouse)]
             s3 == [s1 EXCEPT !.mouse_objects =
                       SelectSeq(@, LAMBDA ms : ms.name # mouse)]
         IN log_event(s3, <<"Removed mouse", mouse>>)
    ELSE [s EXCEPT !.result = "not_recognized"]

\* delete_mode without the test 'mouse in self.mouse_list'
DataSet_delete_mode_nocheck(s, mouse) ==
    LET s1 == [s EXCEPT !.mouse_list = SelectSeq(@, LAMBDA x : x # mouse)]
        s2 == Write(s1, DelMember(s1.hdf, mouse), Event("del", mouse, 0, <<>>))
        s3 == [s2 EXCEPT !.mouse_objects =
                  SelectSeq(@, LAMBDA ms : ms.name # mouse)]
    IN log_event(s3, <<"Removed mouse", mouse>>)

\* the branches of DataSet.delete_mode that take a mouse number
DataSet_delete_mode(s, mouse) ==
    IF mouse \in Range(s.mouse_list)
    THEN LET s1 == [s EXCEPT !.mouse_list = Remove(@, mouse)]
             s2 == Write(s1, DelMember(s1.hdf, mouse), Event("del", mouse, 0, <<>>))
             s3 == [s2 EXCEPT !.mouse_objects =
                       SelectSeq(@, LAMBDA ms : ms.name # mouse)]
         IN log_event(s3, <<"Removed mouse", mouse>>)
    ELSE [s EXCEPT !.result = "not_recognized"]


-----------------------------------------------------------------------------
(* Date: i is the position of the Mouse object in s.mouse_objects, j the    *)
(* position of the Date object in its date_objects.                        *)

\* list(dict.fromkeys(blocks)): the first occurrences, in order
RECURSIVE DictFromKeys(_)
DictFromKeys(q) ==
    IF q = <<>> THEN <<>>
    ELSE LET r == DictFromKeys(SubSeq(q, 1, Len(q) - 1))
             x == q[Len(q)]
         IN IF x \in Range(r) THEN r ELSE Append(r, x)

\* the loop of Date.add_block over blocks[k..]: one log entry per block
RECURSIVE add_block_loop(_, _, _)
add_block_loop(s, blocks, k) ==
    IF k > Len(blocks) THEN s
    ELSE add_block_loop(log_event(s, <<"Added", blocks[k]>>), blocks, k + 1)

\* block[-6] of every block, in order: the block_list the loop builds
BlockNumbers(blocks) == [k \in DOMAIN blocks |-> blocks[k][Len(blocks[k]) - 5]]

\* add_block that keeps the block list that is in the file and appends to it
add_block_merge(s, i, j, blocks_in) ==
    LET m == s.mouse_objects[i].name
        d == s.mouse_objects[i].date_objects[j].date
        old == IF "blocks" \in DOMAIN s.hdf[m][d] THEN s.hdf[m][d]["blocks"] ELSE <<>>
        blocks == DictFromKeys(blocks_in)
        s2 == add_block_loop(s, blocks, 1)
    IN Write(s2, [s2.hdf EXCEPT ![m][d] =
                     SetMember(@, "blocks", old \o BlockNumbers(blocks))],
             Event("set_blocks", m, d, old \o BlockNumbers(blocks)))

\* Date.add_block
add_block(s, i, j, blocks_in) ==
    LET m == s.mouse_objects[i].name
        d == s.mouse_objects[i].date_objects[j].date
        s1 == IF "blocks" \in DOMAIN s.hdf[m][d]
              THEN Write(s, [s.hdf EXCEPT ![m][d] = DelMember(@, "blocks")],
                         Event("del_blocks", m, d, <<>>))
              ELSE s
        blocks == DictFromKeys(blocks_in)
        s2 == add_block_loop(s1, blocks, 1)
    IN Write(s2, [s2.hdf EXCEPT ![m][d] = SetMember(@, "blocks", BlockNumbers(blocks))],
             Event("set_blocks", m, d, BlockNumbers(blocks)))

\* check_experiment_msg that asks only if experimental_quality is 'n'
check_experiment_msg_prompt_equal(block) ==
    IF ExperimentalQuality(block) = <<"n">>
    THEN [asked |-> TRUE, printed |-> <<ExperimentalMessage(block)>>]
    ELSE [asked |-> FALSE, printed |-> <<>>]

\* what Date.check_experiment_msg shows for a block: with 'n' in
\* experimental_quality it prints experimental_message and asks whether the
\* block should be added, otherwise it prints and asks nothing
check_experiment_msg_prompt(block) ==
    IF \E c \in DOMAIN ExperimentalQuality(block) : ExperimentalQuality(block)[c] = "n"
    THEN [asked |-> TRUE, printed |-> <<ExperimentalMessage(block)>>]
    ELSE [asked |-> FALSE, printed |-> <<>>]

\* Date.check_experiment_msg; answer is what the user types at the prompt
\* (TRUE for an answer that contains 'y')
check_experiment_msg(block, answer) ==
    IF check_experiment_msg_prompt(block).asked
    THEN answer
    ELSE TRUE

\* the list blocks_to_add that the loop of Date.choose_blocks builds from the
\* block numbers the user types; picks[k] = <<block_num, answer>>
RECURSIVE blocks_to_add(_, _)
blocks_to_add(obj, picks) ==
    IF picks = <<>> THEN <<>>
    ELSE LET before == blocks_to_add(obj, SubSeq(picks, 1, Len(picks) - 1))
             block_num == picks[Len(picks)][1]
             answer == picks[Len(picks)][2]
         IN IF block_num \in Range(obj.all_block_numbers)
            THEN LET block == obj.all_blocks[Index(obj.all_block_numbers, block_num)]
                 IN IF check_experiment_msg(block, answer)
                    THEN Append(before, block) ELSE before
            ELSE before

\* Date.choose_blocks; inp.answer is the answer to the quality prompt of the
\* single block, inp.picks what the user types in the loop
choose_blocks(s, i, j, inp) ==
    LET obj == s.mouse_objects[i].date_objects[j]
    IN IF Len(obj.all_blocks) = 1
       THEN IF check_experiment_msg(obj.all_blocks[1], inp.answer)
            THEN add_block(s, i, j, <<obj.all_blocks[1]>>)
            ELSE s
       ELSE add_block(s, i, j, blocks_to_add(obj, inp.picks))

-----------------------------------------------------------------------------
(* Mouse *)

\* remove_date that keeps the Date object
remove_date_keepobject(s, i, date) ==
    LET ms == s.mouse_objects[i]
    IN IF date \in Range(ms.date_list)
       THEN LET s1 == [s EXCEPT !.mouse_objects[i].date_list = Remove(@, date)]
            IN Write(s1, [s1.hdf EXCEPT ![ms.name] = DelMember(@, date)],
                     Event("del", ms.name, date, <<>>))
       ELSE s

\* remove_date without 'del self.group[date]'
remove_date_keepgroup(s, i, date) ==
    LET ms == s.mouse_objects[i]
    IN IF date \in Range(ms.date_list)
       THEN LET s1 == [s EXCEPT !.mouse_objects[i].date_list = Remove(@, date)]
            IN [s1 EXCEPT !.mouse_objects[i].date_objects =
                              SelectSeq(@, LAMBDA dt : dt.date # date)]
       ELSE s

\* remove_date that deletes the group of the date below every mouse
remove_date_allmice(s, i, date) ==
    LET ms == s.mouse_objects[i]
    IN IF date \in Range(ms.date_list)
       THEN LET s1 == [s EXCEPT !.mouse_objects[i].date_list = Remove(@, date)]
                s2 == Write(s1, [m \in DOMAIN s1.hdf |->
                                    IF m = ActivityLog THEN s1.hdf[m]
                                    ELSE DelMember(s1.hdf[m], date)],
                           Event("del", ms.name, date, <<>>))
            IN [s2 EXCEPT !.mouse_objects[i].date_objects =
                              SelectSeq(@, LAMBDA dt : dt.date # date)]
       ELSE s

\* Mouse.remove_date
remove_date(s, i, date) ==
    LET ms == s.mouse_objects[i]
    IN IF date \in Range(ms.date_list)
       THEN LET s1 == [s EXCEPT !.mouse_objects[i].date_list = Remove(@, date)]
                s2 == Write(s1, [s1.hdf EXCEPT ![ms.name] = DelMember(@, date)],
                           Event("del", ms.name, date, <<>>))
            IN [s2 EXCEPT !.mouse_objects[i].date_objects =
                              SelectSeq(@, LAMBDA dt : dt.date # date)]
       ELSE s

\* add_date without the call of remove_date
add_date_noremove(s, i, date, inp) ==
    LET name == s.mouse_objects[i].name
        s2 == [s EXCEPT !.mouse_objects[i].date_list = Append(@, date)]
        s3 == Write(s2, [s2.hdf EXCEPT ![name] = RequireGroup(@, date)],
                   Event("group", name, date, <<>>))
    IN IF ~DateDirExists(name, date)
       THEN [s3 EXCEPT !.raised = TRUE]
       ELSE LET s4 == [s3 EXCEPT !.mouse_objects[i].date_objects =
                                     Append(@, Date__init__(name, date))]
            IN choose_blocks(s4, i, Len(s4.mouse_objects[i].date_objects), inp)

\* Mouse.add_date
add_date(s, i, date, inp) ==
    LET name == s.mouse_objects[i].name
        s1 == remove_date(s, i, date)
        s2 == [s1 EXCEPT !.mouse_objects[i].date_list = Append(@, date)]
        s3 == Write(s2, [s2.hdf EXCEPT ![name] = RequireGroup(@, date)],
                   Event("group", name, date, <<>>))
    IN IF ~DateDirExists(name, date)
       THEN [s3 EXCEPT !.raised = TRUE]
       ELSE LET s4 == [s3 EXCEPT !.mouse_objects[i].date_objects =
                                     Append(@, Date__init__(name, date))]
            IN choose_blocks(s4, i, Len(s4.mouse_objects[i].date_objects), inp)

\* the branch of Mouse.choose_dates that takes a date
choose_dates(s, i, date, inp) ==
    IF date \in Range(s.mouse_objects[i].all_dates)
    THEN add_date(s, i, date, inp)
    ELSE [s EXCEPT !.result = "not_recognized"]

\* the branches of Mouse.delete_mode that take a date
Mouse_delete_mode(s, i, date) ==
    IF date \in Range(s.mouse_objects[i].date_list)
    THEN log_event(remove_date(s, i, date), <<"Removed", date>>)
    ELSE [s EXCEPT !.result = "not_recognized"]

\* the loop of Mouse.range_mode over date_range[k..]; inps[date] is what the
\* user types in the choose_blocks of that date
RECURSIVE range_loop(_, _, _, _, _)
range_loop(s, i, date_range, k, inps) ==
    IF k > Len(date_range) \/ s.raised THEN s
    ELSE range_loop(add_date(s, i, date_range[k], inps[date_range[k]]),
                    i, date_range, k + 1, inps)

\* range_mode without the +1 of end_index
range_mode_exclusive(s, i, start_date, end_date, inps) ==
    LET all_dates == s.mouse_objects[i].all_dates
    IN IF start_date \in Range(all_dates) /\ end_date \in Range(all_dates)
       THEN LET start_index == Index(all_dates, start_date)
                end_index == Index(all_dates, end_date)
                date_range == SubSeq(all_dates, start_index, end_index - 1)
            IN range_loop(s, i, date_range, 1, inps)
       ELSE [s EXCEPT !.result = "not_recognized"]

\* range_mode that tests start_date only and takes a missing end_date for
\* the last date
range_mode_startonly(s, i, start_date, end_date, inps) ==
    LET all_dates == s.mouse_objects[i].all_dates
    IN IF start_date \in Range(all_dates)
       THEN LET start_index == Index(all_dates, start_date)
                end_index == IF end_date \in Range(all_dates)
                             THEN Index(all_dates, end_date) + 1
                             ELSE Len(all_dates) + 1
                date_range == SubSeq(all_dates, start_index, end_index - 1)
            IN range_loop(s, i, date_range, 1, inps)
       ELSE [s EXCEPT !.result = "not_recognized"]

\* Mouse.range_mode
range_mode(s, i, start_date, end_date, inps) ==
    LET all_dates == s.mouse_objects[i].all_dates
    IN IF start_date \in Range(all_dates) /\ end_date \in Range(all_dates)
       THEN LET start_index == Index(all_dates, start_date)
                end_index == Index(all_dates, end_date) + 1
                \* all_dates[start_index:end_index], indices 1-based here
                date_range == SubSeq(all_dates, start_index, end_index - 1)
            IN range_loop(s, i, date_range, 1, inps)
       ELSE [s EXCEPT !.result = "not_recognized"]


-----------------------------------------------------------------------------
(* What the user can type in one choose_blocks. *)

\* is the quality prompt shown for this block
Flagged(block) == ~check_experiment_msg(block, FALSE)

\* the sequences of at most n elements of S
SeqsUpTo(S, n) == UNION {[1..k -> S] : k \in 0..n}

\* the inputs that make a difference in choose_blocks of date d of mouse m: the
\* answer where the prompt is shown, and the block numbers of the directory
\* (any other block number prints 'Not recognized.' and the loop goes on)
InputsFor(m, d) ==
    LET obj == Date__init__(m, d)
        first(n) == obj.all_blocks[Index(obj.all_block_numbers, n)]
        pickset == UNION {{<<n, a>> : a \in IF Flagged(first(n)) THEN BOOLEAN ELSE {TRUE}}
                          : n \in Range(obj.all_block_numbers)}
    IN IF Len(obj.all_blocks) = 1
       THEN {[answer |-> a, picks |-> <<>>]
                : a \in IF Flagged(obj.all_blocks[1]) THEN BOOLEAN ELSE {TRUE}}
       ELSE {[answer |-> TRUE, picks |-> p] : p \in SeqsUpTo(pickset, MaxPicks)}

\* what the user can type in the choose_blocks of each date of D, as a function
\* of the date
RECURSIVE RangeInputs(_, _)
RangeInputs(m, D) ==
    IF D = {} THEN {[d \in {} |-> 0]}
    ELSE LET d == CHOOSE d \in D : TRUE
         IN {[e \in DOMAIN f \cup {d} |-> IF e = d THEN x ELSE f[e]]
                : f \in RangeInputs(m, D \ {d}), x \in InputsFor(m, d)}

-----------------------------------------------------------------------------
(* The reader, data/core.py.  It is run on a dataset file and on the       *)
(* repository of the block files, data_repo.                               *)

\* a dataset file holds at most MaxBlocks block numbers for one date
MaxBlocks == 2
\* as_array and as_vector are given at most MaxVecs vectors
MaxVecs == 3
\* of at most MaxVecLen elements each
MaxVecLen == 3

\* the reader before DataSet(...) is called, and out before any call
NoReader == [loaded |-> FALSE, raised |-> FALSE, dataset |-> EmptyGroup,
             mouse_list |-> <<>>, mouse_objects |-> <<>>]

NoOutput == [op |-> "none", args |-> <<>>, raised |-> FALSE, data |-> <<>>]

\* the block files of the repository the reader is run on: blocks 1 and 2 of
\* two dates of mouse m1, block 1 of one date of mouse m2
ExperimentExists(mouse, date, block) ==
    \/ mouse = "m1" /\ date \in {1, 2} /\ block \in {"1", "2"}
    \/ mouse = "m2" /\ date = 1 /\ block = "1"

\* the datasets of a block file, by their path: 'lick' is in every file, with
\* one value per trial, 'tone' is in every file but block 2 of date 2
FileData(mouse, date, block) ==
    LET trials == IF block = "1" THEN <<10 * date + 1>>
                  ELSE <<10 * date + 2, 10 * date + 3>>
    IN [p \in (IF date = 2 /\ block = "2" THEN {"lick"} ELSE {"lick", "tone"})
          |-> trials]

\* the attributes of a block file: a number and a string
FileAttrs(mouse, date, block) ==
    [a \in {"weight", "protocol_name"} |->
        IF a = "weight" THEN 20 + date ELSE "stroop"]

\* h5py gives a numeric attribute as a numpy scalar and a string attribute
\* as a Python str, which has no astype
IsPythonStr(path) == path = "protocol_name"

\* h5py stores the str of a block list as bytes and reads them as bytes
utf8_encode(c) == <<"bytes", c>>
\* bytes.decode('utf-8')
decode(b) == b[2]

\* numpy astype(str) of one element
astype_str(v) == <<"str", v>>

\* the paths a caller passes to get_data
FieldPaths == {"lick", "tone", "weight", "protocol_name"}

\* np.nan, a value that is none of the numbers in the data
NaN == -1

\* Experiment.__init__, given that the block file exists (h5py.File raises
\* if it does not)
Experiment__init__(mouse, date, block) ==
    [mouse |-> mouse, date |-> date, block |-> block]

\* the loop of Mouse.get_experiments over date_list[k..]
RECURSIVE get_experiments_loop(_, _, _, _, _)
get_experiments_loop(mouse, group, date_list, k, acc) ==
    IF k > Len(date_list) \/ acc.raised THEN acc
    ELSE LET date == date_list[k]
         IN IF "blocks" \notin DOMAIN group[date]
            THEN [acc EXCEPT !.raised = TRUE]          \* KeyError
            ELSE LET block_list == [n \in DOMAIN group[date]["blocks"] |->
                                       utf8_encode(group[date]["blocks"][n])]
                     block_number == [n \in DOMAIN block_list |-> decode(block_list[n])]
                 IN IF \E n \in DOMAIN block_number :
                          ~ExperimentExists(mouse, date, block_number[n])
                    THEN [acc EXCEPT !.raised = TRUE]  \* the file is missing
                    ELSE get_experiments_loop(mouse, group, date_list, k + 1,
                             [acc EXCEPT !.experiments = @ \o
                                 [n \in DOMAIN block_number |->
                                     Experiment__init__(mouse, date, block_number[n])]])

\* get_experiments that goes through the dates from the last to the first
get_experiments_reversed(mouse, group, date_list) ==
    get_experiments_loop(mouse, group,
                         [k \in DOMAIN date_list |-> date_list[Len(date_list) + 1 - k]],
                         1, [raised |-> FALSE, experiments |-> <<>>])

\* Mouse.get_experiments
get_experiments(mouse, group, date_list) ==
    get_experiments_loop(mouse, group, date_list, 1,
                         [raised |-> FALSE, experiments |-> <<>>])

\* Mouse.__init__ of the reader
data_Mouse__init__(mouse_number, mouse_group) ==
    LET date_list == DateKeys(mouse_group)
        e == get_experiments(mouse_number, mouse_group, date_list)
    IN [mouse_number |-> mouse_number, date_list |-> date_list,
        experiments |-> e.experiments, raised |-> e.raised]

\* DataSet.__init__ and get_mouse_objects of the reader
data_DataSet__init__(dataset) ==
    LET ml == SelectSeq(RootKeys(dataset), LAMBDA k : k # ActivityLog)
        objects == [i \in DOMAIN ml |-> data_Mouse__init__(ml[i], dataset[ml[i]])]
    IN IF \E i \in DOMAIN objects : objects[i].raised
       THEN [NoReader EXCEPT !.raised = TRUE]
       ELSE [loaded |-> TRUE, raised |-> FALSE, dataset |-> dataset,
             mouse_list |-> ml, mouse_objects |-> objects]

\* np.append with its arguments exchanged
np_append_front(output_vector, vector) == vector \o output_vector

\* np.append(output_vector, vector)
np_append(output_vector, vector) == output_vector \o vector

\* as_vector
RECURSIVE as_vector(_)
as_vector(nested_vectors) ==
    IF nested_vectors = <<>> THEN <<>>                 \* np.array([])
    ELSE np_append(as_vector(SubSeq(nested_vectors, 1, Len(nested_vectors) - 1)),
                   nested_vectors[Len(nested_vectors)])

\* as_array that puts every vector at the end of its row
as_array_right(nested_vectors) ==
    IF nested_vectors = <<>>
    THEN [raised |-> TRUE, data |-> <<>>]
    ELSE LET lengths == {Len(nested_vectors[i]) : i \in DOMAIN nested_vectors}
             max_length == CHOOSE x \in lengths : \A y \in lengths : y <= x
         IN [raised |-> FALSE,
             data |-> [vector \in DOMAIN nested_vectors |->
                         [c \in 1..max_length |->
                             LET pad == max_length - Len(nested_vectors[vector])
                             IN IF c > pad
                                THEN nested_vectors[vector][c - pad] ELSE NaN]]]

\* as_array: max([]) raises ValueError
as_array(nested_vectors) ==
    IF nested_vectors = <<>>
    THEN [raised |-> TRUE, data |-> <<>>]
    ELSE LET lengths == {Len(nested_vectors[i]) : i \in DOMAIN nested_vectors}
             max_length == CHOOSE x \in lengths : \A y \in lengths : y <= x
         IN [raised |-> FALSE,
             data |-> [vector \in DOMAIN nested_vectors |->
                         [c \in 1..max_length |->
                             IF c <= Len(nested_vectors[vector])
                             THEN nested_vectors[vector][c] ELSE NaN]]]

\* the loop of Mouse.get_data over experiments[exp..]
RECURSIVE get_data_loop(_, _, _, _, _, _)
get_data_loop(experiments, exp, hdf_data_path, attr, string, acc) ==
    IF exp > Len(experiments) \/ acc.raised THEN acc
    ELSE LET e == experiments[exp]
             store == IF attr THEN FileAttrs(e.mouse, e.date, e.block)
                      ELSE FileData(e.mouse, e.date, e.block)
         IN IF hdf_data_path \notin DOMAIN store
            THEN [acc EXCEPT !.raised = TRUE]          \* KeyError
            ELSE IF string /\ attr /\ IsPythonStr(hdf_data_path)
            THEN [acc EXCEPT !.raised = TRUE]          \* AttributeError
            ELSE LET v == store[hdf_data_path]
                     w == IF ~string THEN v
                          ELSE IF attr THEN astype_str(v)
                          ELSE [n \in DOMAIN v |-> astype_str(v[n])]
                 IN get_data_loop(experiments, exp + 1, hdf_data_path, attr, string,
                                  [acc EXCEPT !.data = Append(@, w)])

\* get_data that skips the experiments that follow a missing field and
\* returns what it has
get_data_partial(ms, hdf_data_path, vector, attr, string) ==
    LET r == get_data_loop(ms.experiments, 1, hdf_data_path, attr, string,
                           [raised |-> FALSE, data |-> <<>>])
    IN IF vector
       THEN [raised |-> FALSE,
             data |-> as_vector([k \in DOMAIN r.data |->
                                   IF attr THEN <<r.data[k]>> ELSE r.data[k]])]
       ELSE [r EXCEPT !.raised = FALSE]

\* Mouse.get_data; np.append ravels what it is given, so that the scalar of an
\* attribute counts as an array of one element
get_data(ms, hdf_data_path, vector, attr, string) ==
    LET r == get_data_loop(ms.experiments, 1, hdf_data_path, attr, string,
                           [raised |-> FALSE, data |-> <<>>])
    IN IF r.raised THEN [raised |-> TRUE, data |-> <<>>]
       ELSE IF vector
       THEN [r EXCEPT !.data = as_vector([k \in DOMAIN r.data |->
                                   IF attr THEN <<r.data[k]>> ELSE r.data[k]])]
       ELSE r

\* the block lists of a dataset file
ReaderBlockLists == SeqsUpTo({"1", "2"}, MaxBlocks)

\* the date groups of a dataset file: with a block list, or without the leaf
DateGroups == {[k \in {"blocks"} |-> b] : b \in ReaderBlockLists} \cup {EmptyGroup}

\* the groups of a mouse with dates among D
MouseGroups(D) == UNION {[X -> DateGroups] : X \in SUBSET D}

\* the dataset files the reader is run on: with or without mouse m1 and its
\* dates 1 and 2, with or without mouse m2 and one block of its date 1
DatasetFiles ==
    LET log == [k \in {LogKey(0, 0)} |-> <<"User Message", "a">>]
        m1 == {<<FALSE, EmptyGroup>>} \cup {<<TRUE, g>> : g \in MouseGroups({1, 2})}
        m2 == {<<FALSE, EmptyGroup>>} \cup
              {<<TRUE, [d \in {1} |-> [k \in {"blocks"} |-> <<b>>]]>> : b \in {"1", "2"}}
    IN {[k \in {ActivityLog} \cup (IF a[1] THEN {"m1"} ELSE {})
                             \cup (IF b[1] THEN {"m2"} ELSE {}) |->
            IF k = ActivityLog THEN log ELSE IF k = "m1" THEN a[2] ELSE b[2]]
        : a \in m1, b \in m2}

\* the numbers in the vectors given to as_array and as_vector
Values == {1, 2}

\* the collections of vectors given to as_array and as_vector
NestedVectors == SeqsUpTo(SeqsUpTo(Values, MaxVecLen), MaxVecs)

-----------------------------------------------------------------------------
(* The state machine. *)

Init ==
    /\ hdf = EmptyGroup          \* no dataset file yet: mode 'a' creates it
    /\ open = FALSE
    /\ mouse_list = <<>>
    /\ mouse_objects = <<>>
    /\ log_count = 0
    /\ now = 0
    /\ sessions = 0
    /\ written = <<>>
    /\ reader = NoReader
    /\ out = NoOutput

\* the record the handlers work on
S == [hdf |-> hdf, mouse_list |-> mouse_list, mouse_objects |-> mouse_objects,
      log_count |-> log_count, steps |-> <<>>, written |-> written,
      raised |-> FALSE, result |-> "ok"]

LogSize(h) == IF ActivityLog \in DOMAIN h THEN Cardinality(DOMAIN h[ActivityLog]) ELSE 0

\* the state after a handler returned r; no handler catches an exception, so
\* one that is raised ends the process, and the file keeps what was written
Commit(r) ==
    /\ LogSize(r.hdf) <= MaxLog
    /\ hdf' = r.hdf
    /\ IF r.raised
       THEN /\ open' = FALSE
            /\ mouse_list' = <<>>
            /\ mouse_objects' = <<>>
            /\ log_count' = 0
            /\ written' = <<>>
       ELSE /\ open' = TRUE
            /\ mouse_list' = r.mouse_list
            /\ mouse_objects' = r.mouse_objects
            /\ log_count' = r.log_count
            /\ written' = r.written
    /\ UNCHANGED <<now, reader, out>>

\* time passes between two operations
Tick ==
    /\ now < MaxClock
    /\ now' = now + 1
    /\ UNCHANGED <<hdf, open, mouse_list, mouse_objects, log_count, sessions,
                   written, reader, out>>

\* dataset_edit: DataSet(dset_path, data_repo)
Open ==
    /\ ~open
    /\ sessions < MaxSessions
    /\ sessions' = sessions + 1
    /\ \E msg \in EditMsgs : Commit(DataSet__init__(hdf, msg))

\* 'q' in choose_mouse: the program ends
Quit ==
    /\ open
    /\ open' = FALSE
    /\ mouse_list' = <<>>
    /\ mouse_objects' = <<>>
    /\ log_count' = 0
    /\ written' = <<>>
    /\ UNCHANGED <<hdf, now, sessions, reader, out>>

\* a call of DataSet.add_mouse
AddMouse ==
    /\ open
    /\ \E m \in MouseInputs : Commit(add_mouse(S, m))
    /\ UNCHANGED sessions

\* a mouse number typed in choose_mouse
ChooseMouse ==
    /\ open
    /\ \E m \in MouseInputs : Commit(choose_mouse(S, m))
    /\ UNCHANGED sessions

\* a mouse number typed in the delete mode of choose_mouse
RemoveMouse ==
    /\ open
    /\ \E m \in MouseInputs : Commit(DataSet_delete_mode(S, m))
    /\ UNCHANGED sessions

\* a call of Mouse.add_date
AddDate ==
    /\ open
    /\ \E i \in DOMAIN mouse_objects, d \in DateInputs :
          \E inp \in InputsFor(mouse_objects[i].name, d) :
             Commit(add_date(S, i, d, inp))
    /\ UNCHANGED sessions

\* a date typed in choose_dates
ChooseDates ==
    /\ open
    /\ \E i \in DOMAIN mouse_objects, d \in DateInputs :
          \E inp \in InputsFor(mouse_objects[i].name, d) :
             Commit(choose_dates(S, i, d, inp))
    /\ UNCHANGED sessions

\* a date typed in the delete mode of choose_dates
RemoveDate ==
    /\ open
    /\ \E i \in DOMAIN mouse_objects, d \in DateInputs :
          Commit(Mouse_delete_mode(S, i, d))
    /\ UNCHANGED sessions

\* the dates between start and end
Between(start, end) == {d \in DateInputs : start <= d /\ d <= end}

\* 'rg' in choose_dates
RangeMode ==
    /\ open
    /\ \E i \in DOMAIN mouse_objects, start \in DateInputs, end \in DateInputs :
          \E inps \in RangeInputs(mouse_objects[i].name, Between(start, end)) :
             Commit(range_mode(S, i, start, end, inps))
    /\ UNCHANGED sessions

\* the lists of block files a caller can pass to add_block of a Date object
BlockInputs(obj) == SeqsUpTo(Range(obj.all_blocks), MaxPicks)

\* a call of Date.add_block with names of block files of the date
AddBlock ==
    /\ open
    /\ \E i \in DOMAIN mouse_objects :
          \E j \in DOMAIN mouse_objects[i].date_objects :
             \E blocks \in BlockInputs(mouse_objects[i].date_objects[j]) :
                Commit(add_block(S, i, j, blocks))
    /\ UNCHANGED sessions

\* the reader: DataSet(filename, data_repo, dataset_repo) on a dataset file
Load ==
    /\ ~reader.loaded /\ ~reader.raised
    /\ out = NoOutput
    /\ \E dataset \in DatasetFiles : reader' = data_DataSet__init__(dataset)
    /\ UNCHANGED <<hdf, open, mouse_list, mouse_objects, log_count, now,
                   sessions, written, out>>

\* a call of Mouse.get_data of a Mouse object of the loaded dataset
GetData ==
    /\ reader.loaded
    /\ \E i \in DOMAIN reader.mouse_objects, hdf_data_path \in FieldPaths,
          vector \in BOOLEAN, attr \in BOOLEAN, string \in BOOLEAN :
          LET r == get_data(reader.mouse_objects[i], hdf_data_path, vector,
                            attr, string)
          IN out' = [op |-> "get_data",
                     args |-> <<i, hdf_data_path, vector, attr, string>>,
                     raised |-> r.raised, data |-> r.data]
    /\ UNCHANGED <<hdf, open, mouse_list, mouse_objects, log_count, now,
                   sessions, written, reader>>

\* a call of as_array on given vectors (the result does not depend on what
\* was called before: the model follows the first call)
AsArray ==
    /\ reader = NoReader
    /\ out = NoOutput
    /\ \E nested_vectors \in NestedVectors :
          LET r == as_array(nested_vectors)
          IN out' = [op |-> "as_array", args |-> nested_vectors,
                     raised |-> r.raised, data |-> r.data]
    /\ UNCHANGED <<hdf, open, mouse_list, mouse_objects, log_count, now,
                   sessions, written, reader>>

\* a call of as_vector on given vectors
AsVector ==
    /\ reader = NoReader
    /\ out = NoOutput
    /\ \E nested_vectors \in NestedVectors :
          out' = [op |-> "as_vector", args |-> nested_vectors,
                  raised |-> FALSE, data |-> as_vector(nested_vectors)]
    /\ UNCHANGED <<hdf, open, mouse_list, mouse_objects, log_count, now,
                   sessions, written, reader>>

ReaderNext ==
    \/ Load
    \/ GetData
    \/ AsArray
    \/ AsVector

ReaderSpec == Init /\ [][ReaderNext]_vars

Next ==
    \/ Tick
    \/ Open
    \/ Quit
    \/ AddMouse
    \/ ChooseMouse
    \/ RemoveMouse
    \/ AddDate
    \/ ChooseDates
    \/ RemoveDate
    \/ RangeMode
    \/ AddBlock

Spec == Init /\ [][Next]_vars


-----------------------------------------------------------------------------
(* Properties.  A property of an operation is stated for the record the    *)
(* handler returns in a reachable state S of an open session, for every    *)
(* input of the operation.                                                 *)

\* the activity log of the file: attribute name -> comment
Log == IF ActivityLog \in DOMAIN hdf THEN hdf[ActivityLog] ELSE EmptyGroup

\* the comments of the log writes among the writes steps, in order
LogComments(st) ==
    LET logs == SelectSeq(st, LAMBDA e : e.kind = "log")
    IN [k \in DOMAIN logs |-> logs[k].value]

\* C1: within one open session the names of the log attributes written by
\* the calls of log_event are pairwise distinct, because their counters are,
\* also when the calls see the same timestamp.
C1_SessionKeysDistinct ==
    \A a, b \in DOMAIN written :
        a # b => written[a][2] # written[b][2] /\ written[a] # written[b]

\* two calls of log_event of one session saw the same timestamp
C1_Witness ==
    /\ open
    /\ \E a, b \in DOMAIN written : a < b /\ written[a][1] = written[b][1]

\* C2: the activity log is append-only over every sequence of operations,
\* closing and opening again included: an entry that is in the log stays in
\* it with the same comment.
C2_LogAppendOnly ==
    [][\A k \in DOMAIN Log : k \in DOMAIN Log' /\ Log'[k] = Log[k]]_vars

\* in the writes st of one operation, every log write comes after the write
\* of the data change it describes
DataBeforeLog(st) ==
    \A a \in DOMAIN st :
        st[a].kind = "log" =>
            LET c == st[a].value
            IN CASE c[1] = "Added mouse" ->
                      \E b \in 1..(a-1) : /\ st[b].kind = "group"
                                          /\ st[b].mouse = c[2]
                                          /\ st[b].date = 0
                 [] c[1] = "Removed mouse" ->
                      \E b \in 1..(a-1) : /\ st[b].kind = "del"
                                          /\ st[b].mouse = c[2]
                                          /\ st[b].date = 0
                 [] c[1] = "Removed" ->
                      \E b \in 1..(a-1) : /\ st[b].kind = "del"
                                          /\ st[b].date = c[2]
                 [] c[1] = "Added" ->
                      \E b \in 1..(a-1) : /\ st[b].kind = "set_blocks"
                                          /\ st[b].mouse = c[2][1]
                                          /\ st[b].date = c[2][2]
                                          /\ c[2][Len(c[2]) - 5] \in Range(st[b].value)
                 [] OTHER -> TRUE

\* C3: in every mutating operation the write to the selection tree comes
\* before the write of the log entry that describes it.
C3_DataBeforeLog ==
    open =>
        /\ \A m \in MouseInputs :
              /\ DataBeforeLog(add_mouse(S, m).steps)
              /\ DataBeforeLog(DataSet_delete_mode(S, m).steps)
        /\ \A i \in DOMAIN mouse_objects, d \in DateInputs :
              /\ DataBeforeLog(Mouse_delete_mode(S, i, d).steps)
              /\ \A inp \in InputsFor(mouse_objects[i].name, d) :
                    DataBeforeLog(add_date(S, i, d, inp).steps)
        /\ \A i \in DOMAIN mouse_objects :
              \A j \in DOMAIN mouse_objects[i].date_objects :
                 \A blocks \in BlockInputs(mouse_objects[i].date_objects[j]) :
                    DataBeforeLog(add_block(S, i, j, blocks).steps)


\* the number of elements of the sequence q that satisfy Test
Count(q, Test(_)) == Len(SelectSeq(q, Test))

\* the handler that returned r wrote nothing and changed no object
NothingChanged(r) ==
    /\ r.hdf = hdf
    /\ r.steps = <<>>
    /\ r.mouse_list = mouse_list
    /\ r.mouse_objects = mouse_objects

\* C4: add_mouse(id) of a mouse that is already selected adds no second list
\* entry, Mouse object or group and no log entry; of two consecutive
\* add_mouse(id) the first writes one group and one log entry "Added mouse
\* <id>", and the second nothing.
C4_AddMouseIdempotent ==
    open =>
        \A m \in all_mice :
            LET r1 == add_mouse(S, m)
                r2 == add_mouse(r1, m)
            IN /\ m \in Range(mouse_list) => NothingChanged(r1)
               /\ r2 = r1
               /\ Count(r2.mouse_list, LAMBDA x : x = m) = 1
               /\ Count(r2.mouse_objects, LAMBDA ms : ms.name = m) = 1
               /\ m \in DOMAIN r2.hdf
               /\ m \notin Range(mouse_list) =>
                     /\ LogComments(r2.steps) = <<<<"Added mouse", m>>>>
                     /\ Count(r2.steps, LAMBDA e : e.kind = "group") = 1

\* a mouse is selected, its log entry is in the log, and add_mouse of it
\* returns without a write
C4_Witness ==
    /\ open
    /\ \E m \in all_mice :
          /\ m \in Range(mouse_list)
          /\ \E k \in DOMAIN Log : Log[k] = <<"Added mouse", m>>
          /\ add_mouse(S, m).steps = <<>>

\* C5: removing a selected mouse removes it from mouse_list, removes its
\* Mouse object with its Date objects, deletes its whole group from the file
\* and writes exactly one log entry "Removed mouse <id>", whatever is below
\* the mouse.
C5_RemoveMouse ==
    open =>
        \A m \in Range(mouse_list) :
            LET r == DataSet_delete_mode(S, m)
            IN /\ m \notin Range(r.mouse_list)
               /\ \A k \in DOMAIN r.mouse_objects : r.mouse_objects[k].name # m
               /\ m \notin DOMAIN r.hdf
               /\ LogComments(r.steps) = <<<<"Removed mouse", m>>>>
               /\ r.hdf[ActivityLog][LogKey(now, log_count)] = <<"Removed mouse", m>>
               /\ ~r.raised /\ r.result = "ok"

\* a selected mouse with two dates, one of them with blocks, that the delete
\* mode removes
C5_Witness ==
    /\ open
    /\ \E i \in DOMAIN mouse_objects :
          LET m == mouse_objects[i].name
          IN /\ Len(mouse_objects[i].date_objects) = 2
             /\ \E d \in DOMAIN hdf[m] :
                   "blocks" \in DOMAIN hdf[m][d] /\ hdf[m][d]["blocks"] # <<>>
             /\ m \notin DOMAIN DataSet_delete_mode(S, m).hdf


\* the elements of q without the repetitions, in the order of their first
\* occurrence
FirstOccurrences(q) ==
    LET keep == SortedSeq({k \in DOMAIN q : \A j \in 1..(k-1) : q[j] # q[k]})
    IN [k \in DOMAIN keep |-> q[keep[k]]]

\* the group of date d of mouse m that the input inp of one choose_blocks
\* selects: the block numbers the user typed and confirmed, or no list when
\* the only block of the date was not confirmed
SelectedBy(m, d, inp) ==
    LET files == ListDirDate(m, d)
        confirmed(f, answer) ==
            (\E c \in DOMAIN ExperimentalQuality(f) : ExperimentalQuality(f)[c] = "n")
                => answer
        typed == SelectSeq(inp.picks,
                     LAMBDA p : \E k \in DOMAIN files :
                                   /\ files[k][Len(files[k]) - 5] = p[1]
                                   /\ \A j \in 1..(k-1) : files[j][Len(files[j]) - 5] # p[1]
                                   /\ confirmed(files[k], p[2]))
    IN IF Len(files) = 1
       THEN IF confirmed(files[1], inp.answer)
            THEN [k \in {"blocks"} |-> <<files[1][Len(files[1]) - 5]>>]
            ELSE EmptyGroup
       ELSE [k \in {"blocks"} |-> FirstOccurrences([n \in DOMAIN typed |-> typed[n][1]])]

\* C6: add_date(d) with the block choice B1 followed by add_date(d) with the
\* block choice B2 leaves for d exactly the selection of B2, never the union,
\* and d once in date_list with one Date object.
C6_AddDateReplaces ==
    open =>
        \A i \in DOMAIN mouse_objects :
            LET m == mouse_objects[i].name
            IN \A d \in Range(mouse_objects[i].all_dates) :
                  \A inp1, inp2 \in InputsFor(m, d) :
                     LET r1 == add_date(S, i, d, inp1)
                         r2 == add_date(r1, i, d, inp2)
                     IN /\ ~r2.raised
                        /\ r2.hdf[m][d] = SelectedBy(m, d, inp2)
                        /\ Count(r2.mouse_objects[i].date_list, LAMBDA x : x = d) = 1
                        /\ Count(r2.mouse_objects[i].date_objects, LAMBDA dt : dt.date = d) = 1

\* a date is selected with blocks, and add_date of it with another choice
\* leaves another selection
C6_Witness ==
    /\ open
    /\ \E i \in DOMAIN mouse_objects :
          LET m == mouse_objects[i].name
          IN \E d \in Range(mouse_objects[i].date_list) :
                /\ "blocks" \in DOMAIN hdf[m][d]
                /\ hdf[m][d]["blocks"] # <<>>
                /\ \E inp \in InputsFor(m, d) :
                      add_date(S, i, d, inp).hdf[m][d] # hdf[m][d]

\* the dates for which the writes st create a date group, in order: one per
\* call of add_date
DatesAdded(st) ==
    LET g == SelectSeq(st, LAMBDA e : e.kind = "group" /\ e.date # 0)
    IN [k \in DOMAIN g |-> g[k].date]

\* the dates of all_dates at the positions first..last
Slice(all_dates, first, last) ==
    [k \in 1..(IF last >= first THEN last - first + 1 ELSE 0) |-> all_dates[first + k - 1]]

\* C7: range_mode(start, end) with both dates available calls add_date once
\* for every date at the positions index(start)..index(end) of all_dates, in
\* ascending order, and for no other date; afterwards those dates are at the
\* end of date_list in that order, after the other selected dates.
C7_RangeInclusive ==
    open =>
        \A i \in DOMAIN mouse_objects :
            LET ms == mouse_objects[i]
            IN \A start, end \in Range(ms.all_dates) :
                  \A inps \in RangeInputs(ms.name, Between(start, end)) :
                     LET r == range_mode(S, i, start, end, inps)
                         range == Slice(ms.all_dates, Index(ms.all_dates, start),
                                        Index(ms.all_dates, end))
                         rest == SelectSeq(ms.date_list, LAMBDA x : x \notin Range(range))
                     IN /\ ~r.raised /\ r.result = "ok"
                        /\ DatesAdded(r.steps) = range
                        /\ r.mouse_objects[i].date_list = rest \o range
                        /\ [k \in DOMAIN r.mouse_objects[i].date_objects |->
                               r.mouse_objects[i].date_objects[k].date] = rest \o range
                        /\ DOMAIN r.hdf[ms.name] = Range(rest \o range)

\* the dates are selected in the order 2, 1 and range_mode(1, 2) selects them
\* again in the order 1, 2
C7_Witness ==
    /\ open
    /\ \E i \in DOMAIN mouse_objects :
          /\ mouse_objects[i].date_list = <<2, 1>>
          /\ \E inps \in RangeInputs(mouse_objects[i].name, {1, 2}) :
                range_mode(S, i, 1, 2, inps).mouse_objects[i].date_list = <<1, 2>>

\* C8: range_mode(start, end) with start or end not among the available dates
\* is refused and changes nothing: no list, object, group or log entry, and
\* no call of add_date.
C8_RangeRefused ==
    open =>
        \A i \in DOMAIN mouse_objects :
            LET ms == mouse_objects[i]
            IN \A start, end \in DateInputs :
                  (start \notin Range(ms.all_dates) \/ end \notin Range(ms.all_dates)) =>
                     \A inps \in RangeInputs(ms.name, Between(start, end)) :
                        LET r == range_mode(S, i, start, end, inps)
                        IN /\ r.result = "not_recognized"
                           /\ ~r.raised
                           /\ NothingChanged(r)
                           /\ r.written = written

\* a mouse with available dates, one of them selected, refuses a range that
\* ends at a date that is not available
C8_Witness ==
    /\ open
    /\ \E i \in DOMAIN mouse_objects :
          /\ mouse_objects[i].date_list # <<>>
          /\ 1 \in Range(mouse_objects[i].all_dates)
          /\ 3 \notin Range(mouse_objects[i].all_dates)
          /\ \E inps \in RangeInputs(mouse_objects[i].name, Between(1, 3)) :
                range_mode(S, i, 1, 3, inps).result = "not_recognized"

\* the handler that returned r failed: it raised, or the menu refused the input
Failed(r) == r.raised \/ r.result # "ok"

\* C9: add_mouse of a mouse that is not available and add_date of a date that
\* is not available fail before any write: lists, objects, file and log are
\* unchanged.
C9_UnavailableAddFails ==
    open =>
        /\ \A m \in MouseInputs \ all_mice :
              LET r == add_mouse(S, m)
              IN Failed(r) /\ NothingChanged(r)
        /\ \A i \in DOMAIN mouse_objects :
              \A d \in DateInputs \ Range(mouse_objects[i].all_dates) :
                 \A inp \in InputsFor(mouse_objects[i].name, d) :
                    LET r == add_date(S, i, d, inp)
                    IN Failed(r) /\ NothingChanged(r)

\* C10: in every reachable state the persisted block list of every selected
\* date has no block number twice, and every block number in it is the one
\* of a block file of the date.
C10_BlocksValid ==
    \A m \in DOMAIN hdf \ {ActivityLog} :
        \A d \in DOMAIN hdf[m] :
            "blocks" \in DOMAIN hdf[m][d] =>
                LET b == hdf[m][d]["blocks"]
                    files == ListDirDate(m, d)
                IN /\ \A j, k \in DOMAIN b : j # k => b[j] # b[k]
                   /\ \A k \in DOMAIN b :
                         \E f \in DOMAIN files : files[f][Len(files[f]) - 5] = b[k]

\* C11: in every state of an open session every selected date is once in the
\* date_list of its mouse and has one Date object, whatever add_date,
\* delete_mode and range_mode calls came before; and remove_date(d) of a
\* selected date takes d out of date_list, drops its Date object and deletes
\* its group from the file, and leaves the other dates as they are.
C11_DatesUnique ==
    open =>
        \A i \in DOMAIN mouse_objects :
            LET ms == mouse_objects[i]
            IN /\ \A a, b \in DOMAIN ms.date_list :
                     a # b => ms.date_list[a] # ms.date_list[b]
               /\ \A a, b \in DOMAIN ms.date_objects :
                     a # b => ms.date_objects[a].date # ms.date_objects[b].date
               /\ \A d \in Range(ms.date_list) :
                     LET r == remove_date(S, i, d)
                         rm == r.mouse_objects[i]
                     IN /\ rm.date_list = SelectSeq(ms.date_list, LAMBDA x : x # d)
                        /\ rm.date_objects = SelectSeq(ms.date_objects, LAMBDA dt : dt.date # d)
                        /\ \A k \in DOMAIN rm.date_objects : rm.date_objects[k].date # d
                        /\ d \notin DOMAIN r.hdf[ms.name]
                        /\ DOMAIN r.hdf[ms.name] = DOMAIN hdf[ms.name] \ {d}
                        /\ ~r.raised

\* a mouse whose two dates were selected in the order 2, 1, the first of them
\* with blocks, and remove_date(2) deletes the group of date 2
C11_Witness ==
    /\ open
    /\ \E i \in DOMAIN mouse_objects :
          LET m == mouse_objects[i].name
          IN /\ mouse_objects[i].date_list = <<2, 1>>
             /\ Len(mouse_objects[i].date_objects) = 2
             /\ "blocks" \in DOMAIN hdf[m][2]
             /\ DOMAIN remove_date(S, i, 2).hdf[m] = {1}

\* the file names a caller can pass to add_block of the Date object obj of
\* mouse m: the files of the date, and the name of a block 7 that is no file
BlockNames(m, obj) == Range(obj.all_blocks) \cup {FileName(m, obj.date, "block", "7")}

\* C12: add_block(filenames) replaces the block list of the date: afterwards
\* the list in the file is the block numbers of the file names without the
\* repeated names, in the order of their first occurrence, and nothing of the
\* list that was there before; and it writes one log entry "Added <filename>"
\* for every distinct file name, in that order.
C12_AddBlockReplaces ==
    open =>
        \A i \in DOMAIN mouse_objects :
            \A j \in DOMAIN mouse_objects[i].date_objects :
                LET m == mouse_objects[i].name
                    obj == mouse_objects[i].date_objects[j]
                    d == obj.date
                IN \A blocks \in SeqsUpTo(BlockNames(m, obj), MaxNames) :
                      LET r == add_block(S, i, j, blocks)
                          distinct == FirstOccurrences(blocks)
                          numbers == [k \in DOMAIN distinct |->
                                         distinct[k][Len(distinct[k]) - 5]]
                      IN /\ ~r.raised
                         /\ r.hdf[m][d]["blocks"] = numbers
                         /\ DOMAIN r.hdf[m][d] = {"blocks"}
                         /\ LogComments(r.steps) =
                               [k \in DOMAIN distinct |-> <<"Added", distinct[k]>>]
                         /\ r.log_count = log_count + Len(distinct)
                         /\ \A k \in DOMAIN distinct :
                               r.hdf[ActivityLog][LogKey(now, log_count + k - 1)]
                                  = <<"Added", distinct[k]>>
                         /\ Count(r.steps, LAMBDA e : e.kind = "set_blocks") = 1

\* a date has the block list 0, 0 in the file, and add_block of block 7 given
\* twice leaves the list 7 and one log entry
C12_Witness ==
    /\ open
    /\ \E i \in DOMAIN mouse_objects :
          \E j \in DOMAIN mouse_objects[i].date_objects :
             LET m == mouse_objects[i].name
                 d == mouse_objects[i].date_objects[j].date
                 f == FileName(m, d, "block", "7")
                 r == add_block(S, i, j, <<f, f>>)
             IN /\ "blocks" \in DOMAIN hdf[m][d]
                /\ hdf[m][d]["blocks"] = <<"0", "0">>
                /\ r.hdf[m][d]["blocks"] = <<"7">>
                /\ LogComments(r.steps) = <<<<"Added", f>>>>

\* C13: after every completed operation of an open session every date group
\* of the file holds exactly one member, the list blocks, also for a date
\* whose only block is flagged and was not confirmed and for a date for which
\* no block was chosen.
C13_EveryDateHasBlocks ==
    open =>
        \A m \in DOMAIN hdf \ {ActivityLog} :
            \A d \in DOMAIN hdf[m] : DOMAIN hdf[m][d] = {"blocks"}

\* the persisted selection: the mouse groups of the file with their date
\* groups and block lists
Selection == [m \in DOMAIN hdf \ {ActivityLog} |-> hdf[m]]

\* C14: every completed operation of an open session that changes the
\* persisted selection of mice, dates or blocks also writes to the activity
\* log: no step changes the selection and leaves the log as it was.
C14_LogComplete ==
    [][(open /\ open' /\ Selection' # Selection) => Log' # Log]_vars

\* C15: after every completed operation of an open session the objects mirror
\* the file: mouse_list holds the mouse groups of the file (every root group
\* but the activity log) and the names of the Mouse objects, and for every
\* selected mouse date_list holds the date groups below its group and the
\* dates of its Date objects.
C15_MemoryMirrorsFile ==
    open =>
        /\ Range(mouse_list) = DOMAIN hdf \ {ActivityLog}
        /\ [i \in DOMAIN mouse_objects |-> mouse_objects[i].name] = mouse_list
        /\ \A i \in DOMAIN mouse_objects :
              LET ms == mouse_objects[i]
              IN /\ Range(ms.date_list) = DOMAIN hdf[ms.name]
                 /\ [k \in DOMAIN ms.date_objects |-> ms.date_objects[k].date]
                       = ms.date_list

\* two mice are selected, one of them with two dates, after a date was
\* removed or added again (the dates are not in the order of the file)
C15_Witness ==
    /\ open
    /\ Len(mouse_list) = 2
    /\ \E i \in DOMAIN mouse_objects :
          /\ Len(mouse_objects[i].date_list) = 2
          /\ mouse_objects[i].date_list # DateKeys(hdf[mouse_objects[i].name])

\* C16: removing what is not selected is a no-op and no error: delete_mode of
\* a mouse that is not in mouse_list, and remove_date and delete_mode of a
\* date that is not in the date_list of the mouse, leave the lists, the
\* objects, the file and the activity log as they are and raise nothing.
C16_RemoveAbsentNoOp ==
    open =>
        /\ \A m \in MouseInputs \ Range(mouse_list) :
              LET r == DataSet_delete_mode(S, m)
              IN /\ NothingChanged(r)
                 /\ ~r.raised
                 /\ r.log_count = log_count /\ r.written = written
        /\ \A i \in DOMAIN mouse_objects :
              \A d \in DateInputs \ Range(mouse_objects[i].date_list) :
                 LET r == remove_date(S, i, d)
                     q == Mouse_delete_mode(S, i, d)
                 IN /\ NothingChanged(r) /\ ~r.raised
                    /\ r.log_count = log_count /\ r.written = written
                    /\ NothingChanged(q) /\ ~q.raised
                    /\ q.log_count = log_count /\ q.written = written

\* one mouse is selected with one of its dates, and a removal names the other
\* mouse and the other date
C16_Witness ==
    /\ open
    /\ mouse_list = <<"m1">>
    /\ mouse_objects[1].date_list = <<1>>
    /\ "blocks" \in DOMAIN hdf["m1"][1]
    /\ DataSet_delete_mode(S, "m2").result = "not_recognized"
    /\ remove_date(S, 1, 2).steps = <<>>

\* C19: check_experiment_msg asks for a confirmation, and shows the stored
\* experimental_message, exactly when experimental_quality of the block holds
\* the character 'n'; otherwise it asks nothing and shows no message.  It is
\* a query: a block that is flagged and not confirmed leaves the lists, the
\* objects, the file and the activity log as they are.
C19_QualityFlag ==
    open =>
        \A i \in DOMAIN mouse_objects :
            \A j \in DOMAIN mouse_objects[i].date_objects :
                LET obj == mouse_objects[i].date_objects[j]
                IN /\ \A k \in DOMAIN obj.all_blocks :
                         LET block == obj.all_blocks[k]
                             p == check_experiment_msg_prompt(block)
                         IN IF "n" \in Range(ExperimentalQuality(block))
                            THEN /\ p.asked
                                 /\ p.printed = <<ExperimentalMessage(block)>>
                                 /\ ~check_experiment_msg(block, FALSE)
                                 /\ check_experiment_msg(block, TRUE)
                            ELSE /\ ~p.asked
                                 /\ p.printed = <<>>
                                 /\ check_experiment_msg(block, FALSE)
                   /\ (Len(obj.all_blocks) = 1 /\ Flagged(obj.all_blocks[1])) =>
                         LET r == choose_blocks(S, i, j, [answer |-> FALSE, picks |-> <<>>])
                         IN /\ NothingChanged(r) /\ ~r.raised
                            /\ r.log_count = log_count /\ r.written = written

\* a selected date has a block with experimental_quality 'no' and a block
\* with 'y', and the prompt is shown for the first and not for the second
C19_Witness ==
    /\ open
    /\ \E i \in DOMAIN mouse_objects :
          \E j \in DOMAIN mouse_objects[i].date_objects :
             LET blocks == mouse_objects[i].date_objects[j].all_blocks
             IN \E a, b \in DOMAIN blocks :
                   /\ ExperimentalQuality(blocks[a]) = <<"n", "o">>
                   /\ check_experiment_msg_prompt(blocks[a]).asked
                   /\ ExperimentalQuality(blocks[b]) = <<"y">>
                   /\ ~check_experiment_msg_prompt(blocks[b]).asked

\* the Mouse object of the mouse named n among objs
ObjectOf(objs, n) == objs[CHOOSE k \in DOMAIN objs : objs[k].name = n]

\* the handler that returned r left every selected mouse but the one named n
\* as it was: its group in the file with the date groups and block lists, and
\* its Mouse object with date_list and the Date objects
OthersUntouched(r, n) ==
    \A x \in Range(mouse_list) \ {n} :
        /\ x \in DOMAIN r.hdf
        /\ r.hdf[x] = hdf[x]
        /\ \E k \in DOMAIN r.mouse_objects : r.mouse_objects[k].name = x
        /\ ObjectOf(r.mouse_objects, x) = ObjectOf(mouse_objects, x)

\* C22: add_date, remove_date, delete_mode, range_mode and add_block on one
\* mouse, and the removal of that mouse, leave the date_list, the Date
\* objects, the date groups and the block lists of every other selected mouse
\* as they are; and add_mouse of a selected mouse leaves the dates and blocks
\* of that mouse as they are.
C22_OtherMiceUntouched ==
    open =>
        /\ \A i \in DOMAIN mouse_objects :
              LET n == mouse_objects[i].name
              IN /\ OthersUntouched(DataSet_delete_mode(S, n), n)
                 /\ \A d \in DateInputs :
                       /\ OthersUntouched(remove_date(S, i, d), n)
                       /\ OthersUntouched(Mouse_delete_mode(S, i, d), n)
                       /\ \A inp \in InputsFor(n, d) :
                             OthersUntouched(add_date(S, i, d, inp), n)
                 /\ \A start, end \in DateInputs :
                       \A inps \in RangeInputs(n, Between(start, end)) :
                          OthersUntouched(range_mode(S, i, start, end, inps), n)
                 /\ \A j \in DOMAIN mouse_objects[i].date_objects :
                       \A blocks \in BlockInputs(mouse_objects[i].date_objects[j]) :
                          OthersUntouched(add_block(S, i, j, blocks), n)
        /\ \A m \in Range(mouse_list) :
              LET r == add_mouse(S, m)
              IN /\ r.hdf[m] = hdf[m]
                 /\ ObjectOf(r.mouse_objects, m) = ObjectOf(mouse_objects, m)
                 /\ OthersUntouched(r, m)

\* two mice are selected, both with date 1 and a block of it; remove_date(1)
\* on one of them deletes its date group and the other mouse keeps its own
C22_Witness ==
    /\ open
    /\ Len(mouse_objects) = 2
    /\ \A i \in DOMAIN mouse_objects :
          LET n == mouse_objects[i].name
          IN /\ 1 \in Range(mouse_objects[i].date_list)
             /\ "blocks" \in DOMAIN hdf[n][1]
             /\ hdf[n][1]["blocks"] # <<>>
             /\ 1 \notin DOMAIN remove_date(S, i, 1).hdf[n]
             /\ OthersUntouched(remove_date(S, i, 1), n)

\* the mouse groups of the file h with their date groups and block lists
SelectionOf(h) == [m \in DOMAIN h \ {ActivityLog} |-> h[m]]

\* C23: opening a dataset file that exists, with the directories of its mice
\* and dates in the repository, changes nothing of the selection: the mouse
\* groups, date groups and block lists are the same after DataSet.__init__ as
\* before.  mouse_list holds the groups of the file without the activity log,
\* with one Mouse object each and one Date object for each of its date
\* groups; log_count is 0 at the one call of log_event, which writes the user
\* message and is the only write, and 1 after it.
C23_OpenKeepsSelection ==
    (~open /\ ActivityLog \in DOMAIN hdf) =>
        \A msg \in EditMsgs :
            LET r == DataSet__init__(hdf, msg)
                mice == DOMAIN hdf \ {ActivityLog}
            IN /\ SelectionOf(r.hdf) = SelectionOf(hdf)
               /\ r.raised <=>
                     \E m \in mice : \/ ~MouseDirExists(m)
                                     \/ \E d \in DOMAIN hdf[m] : ~DateDirExists(m, d)
               /\ ~r.raised =>
                     /\ ActivityLog \notin Range(r.mouse_list)
                     /\ Range(r.mouse_list) = mice
                     /\ Len(r.mouse_list) = Cardinality(mice)
                     /\ \A k \in DOMAIN r.mouse_list :
                           LET ms == r.mouse_objects[k]
                           IN /\ ms.name = r.mouse_list[k]
                              /\ Range(ms.date_list) = DOMAIN hdf[ms.name]
                              /\ [j \in DOMAIN ms.date_objects |->
                                     ms.date_objects[j].date] = ms.date_list
                     /\ Len(r.mouse_objects) = Len(r.mouse_list)
                     /\ r.steps = <<Event("log", "", 0, <<"User Message", msg>>)>>
                     /\ r.written = <<LogKey(now, 0)>>
                     /\ r.hdf[ActivityLog][LogKey(now, 0)] = <<"User Message", msg>>
                     /\ r.log_count = 1

\* a closed dataset file with two mice, one of them with two dates and a
\* block, is opened: two Mouse objects, two Date objects, log_count 1
C23_Witness ==
    /\ ~open /\ ActivityLog \in DOMAIN hdf
    /\ DOMAIN hdf = {ActivityLog, "m1", "m2"}
    /\ DOMAIN hdf["m1"] = {1, 2}
    /\ \E d \in DOMAIN hdf["m1"] :
          "blocks" \in DOMAIN hdf["m1"][d] /\ hdf["m1"][d]["blocks"] # <<>>
    /\ \E msg \in EditMsgs :
          LET r == DataSet__init__(hdf, msg)
          IN /\ ~r.raised
             /\ r.mouse_list = <<"m1", "m2">>
             /\ Len(r.mouse_objects[1].date_objects) = 2
             /\ r.log_count = 1

-----------------------------------------------------------------------------
(* Properties of the reader, under ReaderSpec. *)

\* the blocks of the dataset file below the group of one mouse, as pairs
\* <<date, block number>>: date after date in the order of date_list[k..], and
\* for one date in the order of its block list
RECURSIVE SelectedBlocks(_, _, _)
SelectedBlocks(group, date_list, k) ==
    IF k > Len(date_list) THEN <<>>
    ELSE LET d == date_list[k]
         IN [n \in DOMAIN group[d]["blocks"] |-> <<d, group[d]["blocks"][n]>>]
               \o SelectedBlocks(group, date_list, k + 1)

\* the number of block numbers in the block lists of the dates D of a group
RECURSIVE TotalBlocks(_, _)
TotalBlocks(group, D) ==
    IF D = {} THEN 0
    ELSE LET d == CHOOSE d \in D : TRUE
         IN Len(group[d]["blocks"]) + TotalBlocks(group, D \ {d})

\* what one experiment holds at path, as get_data is asked for it
FieldOf(mouse, date, block, path, attr, string) ==
    LET v == IF attr THEN FileAttrs(mouse, date, block)[path]
             ELSE FileData(mouse, date, block)[path]
    IN IF ~string THEN v
       ELSE IF attr THEN <<"str", v>>
       ELSE [n \in DOMAIN v |-> <<"str", v[n]>>]

\* C17: get_data of a mouse that returns nested data holds one entry for
\* every block of the block lists of the mouse, date after date in the order
\* of the date_list of the mouse and within one date in the order of its block
\* list; the number of entries is the number of block numbers in the lists of
\* all dates of the mouse.
C17_OneSequencePerExperiment ==
    (out.op = "get_data" /\ ~out.raised /\ ~out.args[3]) =>
        LET ms == reader.mouse_objects[out.args[1]]
            group == reader.dataset[ms.mouse_number]
            sel == SelectedBlocks(group, ms.date_list, 1)
        IN /\ Range(ms.date_list) = DOMAIN group
           /\ Len(out.data) = TotalBlocks(group, DOMAIN group)
           /\ Len(out.data) = Len(sel)
           /\ \A k \in DOMAIN sel :
                 out.data[k] = FieldOf(ms.mouse_number, sel[k][1], sel[k][2],
                                       out.args[2], out.args[4], out.args[5])

\* get_data returned the nested 'lick' data of a mouse with two dates, two
\* blocks of date 1 in the order 2, 1 and one block of date 2
C17_Witness ==
    /\ out.op = "get_data" /\ ~out.raised /\ ~out.args[3]
    /\ out.args[2] = "lick" /\ ~out.args[4]
    /\ LET ms == reader.mouse_objects[out.args[1]]
       IN /\ ms.date_list = <<1, 2>>
          /\ reader.dataset[ms.mouse_number][1]["blocks"] = <<"2", "1">>
          /\ reader.dataset[ms.mouse_number][2]["blocks"] = <<"1">>
          /\ Len(out.data) = 3

\* does the block file of the experiment e hold path, as a dataset or as an
\* attribute
HasField(e, path, attr) ==
    path \in DOMAIN (IF attr THEN FileAttrs(e.mouse, e.date, e.block)
                     ELSE FileData(e.mouse, e.date, e.block))

\* C18: get_data raises (KeyError) when the path is missing in one of the
\* experiments of the mouse, at whatever position, and then returns nothing:
\* no data of the experiments that do hold the path.
C18_MissingFieldRaises ==
    out.op = "get_data" =>
        LET ms == reader.mouse_objects[out.args[1]]
        IN (\E k \in DOMAIN ms.experiments :
               ~HasField(ms.experiments[k], out.args[2], out.args[4]))
           => out.raised /\ out.data = <<>>

\* get_data('tone') raised for a mouse with three experiments of which the
\* second has no 'tone' and the first and the third have it
C18_Witness ==
    /\ out.op = "get_data" /\ out.raised
    /\ out.args[2] = "tone" /\ ~out.args[4]
    /\ LET e == reader.mouse_objects[out.args[1]].experiments
       IN /\ Len(e) = 3
          /\ HasField(e[1], "tone", FALSE)
          /\ ~HasField(e[2], "tone", FALSE)
          /\ HasField(e[3], "tone", FALSE)

\* C20: as_array of a collection of n >= 1 vectors returns n rows whose width
\* is the length of the longest vector; row i holds vector i in its first
\* len(vector i) cells and nan in the others.  as_array of an empty
\* collection raises.
C20_RaggedMatrix ==
    out.op = "as_array" =>
        LET nested == out.args
        IN IF nested = <<>>
           THEN out.raised /\ out.data = <<>>
           ELSE /\ ~out.raised
                /\ Len(out.data) = Len(nested)
                /\ \E i \in DOMAIN nested : Len(out.data[1]) = Len(nested[i])
                /\ \A i \in DOMAIN nested :
                      /\ Len(nested[i]) <= Len(out.data[1])
                      /\ Len(out.data[i]) = Len(out.data[1])
                      /\ \A c \in DOMAIN out.data[i] :
                            out.data[i][c] = IF c <= Len(nested[i])
                                             THEN nested[i][c] ELSE NaN

\* as_array was given vectors of the lengths 3, 1 and 2 and returned three
\* rows of three cells, the second with nan in its last two cells
C20_Witness ==
    /\ out.op = "as_array" /\ ~out.raised
    /\ Len(out.args) = 3
    /\ Len(out.args[1]) = 3 /\ Len(out.args[2]) = 1 /\ Len(out.args[3]) = 2
    /\ out.args[3] = <<1, 2>>
    /\ Len(out.data) = 3 /\ Len(out.data[2]) = 3
    /\ out.data[2][2] = NaN /\ out.data[2][3] = NaN
    /\ out.data[3] = <<1, 2, NaN>>

\* the sum of the lengths of the first n vectors of nested
RECURSIVE LengthsBefore(_, _)
LengthsBefore(nested, n) ==
    IF n = 0 THEN 0 ELSE LengthsBefore(nested, n - 1) + Len(nested[n])

\* C21: as_vector returns the vectors it is given one after the other, in the
\* order in which they are given: the length of the result is the sum of
\* their lengths, and element c of vector i is at the place c after the
\* elements of the vectors before i.  An empty collection gives an empty
\* result and no error.
C21_ConcatenatedVector ==
    out.op = "as_vector" =>
        LET nested == out.args
        IN /\ ~out.raised
           /\ Len(out.data) = LengthsBefore(nested, Len(nested))
           /\ \A i \in DOMAIN nested :
                 \A c \in DOMAIN nested[i] :
                    out.data[LengthsBefore(nested, i - 1) + c] = nested[i][c]
           /\ nested = <<>> => out.data = <<>>

\* as_vector was given vectors of the lengths 2, 1 and 3 that differ in their
\* elements, and returned six elements
C21_Witness ==
    /\ out.op = "as_vector" /\ ~out.raised
    /\ out.args = <<<<1, 2>>, <<2>>, <<1, 1, 2>>>>
    /\ out.data = <<1, 2, 2, 1, 1, 2>>

\* as_vector was given no vector and returned an empty result
C21_WitnessEmpty ==
    /\ out.op = "as_vector" /\ ~out.raised
    /\ out.args = <<>> /\ out.data = <<>>

====
